---- MODULE Spec2Model ----
(***************************************************************************)
(* Category page schema generator (src/schema_generator.py) and its quick  *)
(* start client (src/quick_start.py).                                      *)
(*                                                                         *)
(* Eight CSV files are read into tables; for each row of the category      *)
(* table a JSON-LD document is assembled from the tables and written to a   *)
(* file.                                                                   *)
(*                                                                         *)
(* Values.  A cell of a loaded table is NaN (absent) or V(x), a present    *)
(* value x.  Python strings and ints built by the code itself are plain    *)
(* TLA+ strings and integers.  A dict is a function with string keys, a    *)
(* list is a sequence.  A raised exception is the dict Raise(kind, msg).   *)
(*                                                                         *)
(* Columns the code copies into a node without looking at them are         *)
(* represented by one column per node (course_name, catalog_name, ...);    *)
(* every column the code tests, sorts by, joins on or converts is kept.    *)
(***************************************************************************)
EXTENDS Integers, Sequences, FiniteSets, TLC

VARIABLES
    disk,             \* the CSV files of the data directory
    self,             \* the SchemaGenerator object: its tables
    pc,               \* position of the running entry point
    idx,              \* generate_all_schemas: index of the next category row
    generated_files,  \* generate_all_schemas: the list it returns
    output,           \* the output directory: file name -> content
    log,              \* the lines printed so far
    schema,           \* the client's document (result of the last call)
    warnings          \* the client's result of validate_schema

vars == <<disk, self, pc, idx, generated_files, output, log, schema, warnings>>

(***************************************************************************)
(* Cells                                                                   *)
(***************************************************************************)
NaN == <<>>

V(x) == <<x>>

\* pd.notna
notna(cell) == cell # NaN

\* pandas ==: NaN equals nothing, itself included
eq(a, b) == a # NaN /\ b # NaN /\ a = b

\* str(): the text of a cell
str(cell) == IF cell = NaN THEN "nan" ELSE cell[1]

Raise(kind, msg) == ("exc" :> kind) @@ ("msg" :> msg)

IsExc(x) == DOMAIN x = {"exc", "msg"}

\* int(): a present integer is itself, an absent value raises ValueError
int(cell) ==
    IF cell = NaN
        THEN Raise("ValueError", "cannot convert float NaN to integer")
        ELSE cell[1]

(***************************************************************************)
(* Reading a CSV file: pd.read_csv with its default na_values              *)
(***************************************************************************)
NaValues == {"", "N/A", "NA", "NaN", "nan", "null", "NULL", "n/a", "None", "#N/A"}

Digits == ("0" :> 0) @@ ("1" :> 1) @@ ("2" :> 2) @@ ("3" :> 3) @@ ("4" :> 4)
          @@ ("5" :> 5) @@ ("6" :> 6) @@ ("7" :> 7) @@ ("8" :> 8) @@ ("9" :> 9)

ParseCell(text) ==
    IF text \in NaValues THEN NaN
    ELSE IF text \in DOMAIN Digits THEN V(Digits[text])
    ELSE V(text)

read_csv(rows) ==
    [i \in 1..Len(rows) |-> [k \in DOMAIN rows[i] |-> ParseCell(rows[i][k])]]

FileOrder ==
    << "org_data", "category_data", "about_topics_data", "courses_data",
       "topics_data", "areas_data", "categories_data", "faqs_data" >>

TableNames == {FileOrder[k] : k \in 1..Len(FileOrder)}

\* rows of a table whose column col equals value
RowsWhere(table, col, value) == SelectSeq(table, LAMBDA r : eq(r[col], value))

(***************************************************************************)
(* Field resolver                                                          *)
(***************************************************************************)
get_org_value(s, variable_name) ==
    LET row == RowsWhere(s.org_data, "Variable Name", V(variable_name))
    IN  IF row # <<>> THEN str(row[1]["Value"]) ELSE ""

(***************************************************************************)
(* Fragment builders                                                       *)
(***************************************************************************)
generate_website_schema(s) ==
    ("@type" :> "WebSite")
    @@ ("name" :> get_org_value(s, "organization_name"))
    @@ ("@id" :> get_org_value(s, "base_url") \o "/#website")
    @@ ("url" :> get_org_value(s, "base_url"))
    @@ ("description" :> get_org_value(s, "organization_description"))
    @@ ("publisher" :> ("@id" :> get_org_value(s, "base_url") \o "/#organization"))

generate_organization_schema(s) ==
    ("@type" :> "EducationalOrganization")
    @@ ("@id" :> get_org_value(s, "base_url") \o "/#organization")
    @@ ("name" :> get_org_value(s, "organization_name"))
    @@ ("description" :> get_org_value(s, "organization_long_description"))
    @@ ("url" :> get_org_value(s, "base_url"))
    @@ ("logo" :> get_org_value(s, "organization_logo_url"))
    @@ ("sameAs" :> << get_org_value(s, "social_facebook"),
                      get_org_value(s, "social_instagram"),
                      get_org_value(s, "social_twitter"),
                      get_org_value(s, "social_linkedin"),
                      get_org_value(s, "social_youtube"),
                      get_org_value(s, "social_tiktok") >>)
    @@ ("award" :> get_org_value(s, "organization_award"))

generate_breadcrumb_schema(category_row) ==
    LET item1 ==
            IF notna(category_row["breadcrumb_1_name"])
                THEN << ("@type" :> "ListItem") @@ ("position" :> 1)
                        @@ ("name" :> category_row["breadcrumb_1_name"])
                        @@ ("item" :> category_row["breadcrumb_1_url"]) >>
                ELSE <<>>
        item2 ==
            IF notna(category_row["breadcrumb_2_name"])
                THEN << ("@type" :> "ListItem") @@ ("position" :> 2)
                        @@ ("name" :> category_row["breadcrumb_2_name"]) >>
                ELSE <<>>
    IN  ("@type" :> "BreadcrumbList") @@ ("itemListElement" :> item1 \o item2)

\* a plausible slip: every numbered column gives an entry, absent or not
AllColumns(row, prefix, suffix, first, last) == [k \in 1..(last - first + 1) |-> first + k - 1]

\* the numbers i in first..last whose column prefix{i}suffix of row is present
RECURSIVE PresentColumns(_, _, _, _, _)
PresentColumns(row, prefix, suffix, first, last) ==
    IF first > last THEN <<>>
    ELSE (IF notna(row[prefix \o ToString(first) \o suffix])
              THEN << first >> ELSE <<>>)
         \o PresentColumns(row, prefix, suffix, first + 1, last)

generate_about_topics(s, category_id) ==
    LET about_row == RowsWhere(s.about_topics_data, "Category ID", category_id)
    IN  IF about_row # <<>>
            THEN LET row == about_row[1]
                     slots == PresentColumns(row, "about_topic_", "_name", 1, 3)
                 IN  [k \in 1..Len(slots) |->
                        ("@type" :> "Thing")
                        @@ ("name" :> row["about_topic_" \o ToString(slots[k]) \o "_name"])
                        @@ ("description" :>
                              row["about_topic_" \o ToString(slots[k]) \o "_description"])]
            ELSE <<>>

generate_collection_page_schema(s, category_row) ==
    LET category_id == category_row["Category ID"]
    IN  ("@type" :> "CollectionPage")
        @@ ("@id" :> str(category_row["category_page_url"]) \o "#catalog")
        @@ ("url" :> category_row["category_page_url"])
        @@ ("name" :> category_row["category_page_name"])
        @@ ("about" :> generate_about_topics(s, category_id))
        @@ ("keywords" :> category_row["category_keywords"])
        @@ ("isPartOf" :> ("@id" :> get_org_value(s, "base_url") \o "/#website"))
        @@ ("breadcrumb" :> generate_breadcrumb_schema(category_row))
        @@ ("mainEntity" :> ("@id" :> "#" \o str(category_row["catalog_id"])))

\* a plausible slip: the courseCode key is always set
has_course_code_always(course_row) == TRUE

\* pd.notna(course_row['course_code']) and course_row['course_code'] != 'N/A'
has_course_code(course_row) ==
    notna(course_row["course_code"]) /\ course_row["course_code"] # V("N/A")

\* a plausible slip: the last matching row wins
iloc_last(rows) == rows[Len(rows)]

\* topics_row.iloc[0], of a frame that is not empty
iloc_0(rows) == rows[1]

\* a plausible slip: the reference names the page itself
course_is_part_of_page_url(category_row) ==
    ("@id" :> str(category_row["category_page_url"]))

\* "isPartOf": {"@id": f"{category_row['category_page_url']}#catalog"}
course_is_part_of(category_row) ==
    ("@id" :> str(category_row["category_page_url"]) \o "#catalog")

generate_course_schema(s, course_row, category_row) ==
    LET category_id == course_row["Category ID"]
        course_position == int(course_row["course_position"])
        topics_row ==
            SelectSeq(s.topics_data,
                      LAMBDA r : /\ eq(r["Category ID"], category_id)
                                 /\ eq(r["course_position"], V(course_position)))
        teaches ==
            IF topics_row # <<>>
                THEN LET topic_row == iloc_0(topics_row)
                         cols == PresentColumns(topic_row, "course_topic_", "", 1, 8)
                     IN  [k \in 1..Len(cols) |->
                            topic_row["course_topic_" \o ToString(cols[k])]]
                ELSE <<>>
        course_schema ==
            ("@type" :> "Course")
            @@ ("position" :> course_position)
            @@ ("name" :> course_row["course_name"])
            @@ ("teaches" :> teaches)
            @@ ("audience" :>
                  (("@type" :> "Audience")
                   @@ (IF notna(course_row["geographic_type"])
                           THEN ("geographicArea" :>
                                   (("@type" :> course_row["geographic_type"])
                                    @@ ("name" :> course_row["geographic_name"])))
                           ELSE <<>>)))
            @@ ("hasCourseInstance" :>
                  (("@type" :> "CourseInstance")
                   @@ ("courseMode" :>
                         << course_row["course_mode_1"] >>
                         \o (IF notna(course_row["course_mode_2"])
                                 THEN << course_row["course_mode_2"] >> ELSE <<>>))))
            @@ ("provider" :> ("@id" :> get_org_value(s, "base_url") \o "/#organization"))
            @@ ("isPartOf" :> course_is_part_of(category_row))
            @@ ("interactivityType" :> "mixed")
    IN  IF course_row["course_position"] = NaN
            THEN int(course_row["course_position"])
        ELSE IF has_course_code(course_row)
            THEN course_schema @@ ("courseCode" :> course_row["course_code"])
        ELSE course_schema

\* a plausible slip: the areas table is not filtered by category
area_rows_unscoped(s, category_id) == s.areas_data

\* self.areas_data[self.areas_data['Category ID'] == category_id]
area_rows_of(s, category_id) == RowsWhere(s.areas_data, "Category ID", category_id)

generate_area_served(s, category_id) ==
    LET area_rows == area_rows_of(s, category_id)
    IN  [k \in 1..Len(area_rows) |->
           ("@type" :> "State")
           @@ ("name" :> area_rows[k]["area_served_name"])
           @@ ("alternateName" :> area_rows[k]["area_served_code"])
           @@ ("address" :>
                 (("@type" :> "PostalAddress")
                  @@ ("addressRegion" :> area_rows[k]["area_served_code"])
                  @@ ("addressCountry" :> "US")))
           @@ ("description" :> area_rows[k]["area_served_description"])]

generate_categories(s, category_id) ==
    LET cat_row == RowsWhere(s.categories_data, "Category ID", category_id)
    IN  IF cat_row # <<>>
            THEN LET row == cat_row[1]
                     cols == PresentColumns(row, "category_", "", 1, 6)
                 IN  [k \in 1..Len(cols) |-> row["category_" \o ToString(cols[k])]]
            ELSE <<>>

(***************************************************************************)
(* DataFrame.sort_values(col): ascending, absent keys last.  The default   *)
(* sort is not a stable one: rows with equal keys may come out in any      *)
(* order, so the result is the set of orders the sort may produce.  Rows   *)
(* with an absent key are appended in source order.                        *)
(***************************************************************************)
Perms(n) == {p \in [1..n -> 1..n] : \A i, j \in 1..n : i # j => p[i] # p[j]}

\* a plausible slip: the rows are not sorted, they stay in source order
InOrder_unsorted(a, ia, b, ib) == ia < ib

\* whether a row with key a, at source index ia, may come before one with key b
InOrder(a, ia, b, ib) ==
    IF a = NaN THEN b = NaN /\ ia < ib
    ELSE b = NaN \/ a[1] <= b[1]

sort_values(rows, col) ==
    LET n == Len(rows)
        ok(p) == \A i, j \in 1..n :
                    i < j => InOrder(rows[p[i]][col], p[i], rows[p[j]][col], p[j])
    IN  {[i \in 1..n |-> rows[p[i]]] : p \in {q \in Perms(n) : ok(q)}}

\* index of the first element of list that is a raised exception, 0 if none
FirstExc(list) ==
    LET bad == {i \in 1..Len(list) : IsExc(list[i])}
    IN  IF bad = {} THEN 0 ELSE CHOOSE i \in bad : \A j \in bad : i <= j

\* a plausible slip: the number of items is the length of the course list
number_of_items_recount(category_row, course_list) == Len(course_list)

\* "numberOfItems": int(category_row['total_courses'])
number_of_items(category_row, course_list) == int(category_row["total_courses"])

\* the set of results generate_offer_catalog_schema may return
generate_offer_catalog_schema(s, category_row) ==
    LET category_id == category_row["Category ID"]
        catalog(category_courses) ==
            LET course_list ==
                    [k \in 1..Len(category_courses) |->
                       generate_course_schema(s, category_courses[k], category_row)]
            IN  IF FirstExc(course_list) # 0
                    THEN course_list[FirstExc(course_list)]
                ELSE IF category_row["total_courses"] = NaN
                    THEN number_of_items(category_row, course_list)
                ELSE ("@type" :> "OfferCatalog")
                     @@ ("@id" :> "#" \o str(category_row["catalog_id"]))
                     @@ ("name" :> category_row["catalog_name"])
                     @@ ("numberOfItems" :> number_of_items(category_row, course_list))
                     @@ ("provider" :>
                           ("@id" :> get_org_value(s, "base_url") \o "/#organization"))
                     @@ ("itemListElement" :> course_list)
                     @@ ("areaServed" :> generate_area_served(s, category_id))
                     @@ ("category" :> generate_categories(s, category_id))
    IN  {catalog(sorted) :
            sorted \in sort_values(RowsWhere(s.courses_data, "Category ID", category_id),
                                   "course_position")}

\* a plausible slip: a row without a question is listed too
faq_asked_any(row) == TRUE

\* if pd.notna(row['faq_question'])
faq_asked(row) == notna(row["faq_question"])

\* the set of results generate_faq_schema may return
generate_faq_schema(s, category_id, category_url) ==
    LET faq(faq_rows) ==
            LET asked == SelectSeq(faq_rows, faq_asked)
                faq_items ==
                    [k \in 1..Len(asked) |->
                       ("@type" :> "Question")
                       @@ ("name" :> asked[k]["faq_question"])
                       @@ ("acceptedAnswer" :>
                             (("@type" :> "Answer") @@ ("text" :> asked[k]["faq_answer"])))]
            IN  ("@type" :> "FAQPage")
                @@ ("@id" :> str(category_url) \o "#faq")
                @@ ("mainEntity" :> faq_items)
    IN  {faq(sorted) :
            sorted \in sort_values(RowsWhere(s.faqs_data, "Category ID", category_id),
                                   "faq_position")}

(***************************************************************************)
(* Graph assembler: the set of results generate_schema_for_category may    *)
(* give, each a document or a raised exception                             *)
(***************************************************************************)
\* a plausible slip: an unknown category gives an empty document, no error
not_found_empty_document(category_id) ==
    ("@context" :> "https://schema.org") @@ ("@graph" :> <<>>)

\* raise ValueError(f"Category ID '{category_id}' not found in category_pages.csv")
not_found(category_id) ==
    Raise("ValueError",
          "Category ID '" \o str(category_id) \o "' not found in category_pages.csv")

\* a plausible slip: a FAQPage without questions is left out of the graph
graph_of_skipping_empty_faq(website, organization, page, catalog, faqpage) ==
    << website, organization, page, catalog >>
    \o (IF faqpage["mainEntity"] = <<>> THEN <<>> ELSE << faqpage >>)

\* the "@graph" list of the document
graph_of(website, organization, page, catalog, faqpage) ==
    << website, organization, page, catalog, faqpage >>

generate_schema_for_category(s, category_id) ==
    LET found == RowsWhere(s.category_data, "Category ID", category_id)
    IN  IF found = <<>>
            THEN {not_found(category_id)}
            ELSE LET category_row == found[1]
                 IN  {IF IsExc(catalog) THEN catalog
                      ELSE ("@context" :> "https://schema.org")
                           @@ ("@graph" :>
                                 graph_of(generate_website_schema(s),
                                          generate_organization_schema(s),
                                          generate_collection_page_schema(s, category_row),
                                          catalog,
                                          faqpage)) :
                        catalog \in generate_offer_catalog_schema(s, category_row),
                        faqpage \in generate_faq_schema(s, category_id,
                                                        category_row["category_page_url"])}

(***************************************************************************)
(* Validator                                                               *)
(***************************************************************************)
\* a plausible slip: FAQPage is required too
required_types_with_faq ==
    << "WebSite", "EducationalOrganization", "CollectionPage", "OfferCatalog", "FAQPage" >>

required_types == << "WebSite", "EducationalOrganization", "CollectionPage", "OfferCatalog" >>

validate_schema(doc) ==
    LET graph == IF "@graph" \in DOMAIN doc THEN doc["@graph"] ELSE <<>>
        \* item.get("@type"): None when the node has no @type
        schema_types ==
            [k \in 1..Len(graph) |->
               IF "@type" \in DOMAIN graph[k] THEN V(graph[k]["@type"]) ELSE NaN]
        missing ==
            SelectSeq(required_types,
                      LAMBDA req_type :
                          \A k \in 1..Len(schema_types) : schema_types[k] # V(req_type))
    IN  (IF "@context" \notin DOMAIN doc THEN << "Missing @context" >> ELSE <<>>)
        \o (IF "@graph" \notin DOMAIN doc THEN << "Missing @graph" >> ELSE <<>>)
        \o [k \in 1..Len(missing) |-> "Missing required schema type: " \o missing[k]]

(***************************************************************************)
(* load_data: the eight files are read in FileOrder; the first file that   *)
(* is missing (FileNotFoundError) or cannot be parsed ends the load with   *)
(* the exception, the tables read before it stay set.                      *)
(***************************************************************************)
None == [none |-> TRUE]

Unloaded == [t \in TableNames |-> <<>>] @@ [loaded |-> {}]

FirstBad(d) ==
    LET bad == {k \in 1..Len(FileOrder) : d.status[FileOrder[k]] # "ok"}
    IN  IF bad = {} THEN 0 ELSE CHOOSE k \in bad : \A j \in bad : k <= j

load_data(d) ==
    LET bad == FirstBad(d)
        last == IF bad = 0 THEN Len(FileOrder) ELSE bad - 1
        read == {FileOrder[k] : k \in 1..last}
    IN  [self |-> [t \in TableNames |->
                       IF t \in read THEN read_csv(d.rows[t]) ELSE <<>>]
                  @@ [loaded |-> read],
         exc |-> IF bad = 0 THEN "" 
                 ELSE IF d.status[FileOrder[bad]] = "missing" THEN "FileNotFoundError"
                 ELSE "ParserError"]

Line(kind, id, msg) == [kind |-> kind, id |-> id, msg |-> msg]

(***************************************************************************)
(* schema_generator.main                                                   *)
(***************************************************************************)
\* a plausible slip: the except clause of main prints and does not return
main_after_load_no_return(exc) == "generate_all"

\* where main goes after load_data: it returns when the load raised
main_after_load(exc) == IF exc # "" THEN "returned" ELSE "generate_all"

main_load_data ==
    /\ pc = "main"
    /\ LET res == load_data(disk)
       IN  /\ self' = res.self
           /\ pc' = main_after_load(res.exc)
           /\ log' = Append(log, IF res.exc # ""
                                     THEN Line("load_failed", NaN, res.exc)
                                     ELSE Line("loaded", NaN, ""))
    /\ UNCHANGED <<disk, idx, generated_files, output, schema, warnings>>

\* generate_all_schemas, up to its loop: os.makedirs may raise, which nothing catches
generate_all_enter ==
    /\ pc = "generate_all"
    /\ \E made \in BOOLEAN :
          pc' = IF made THEN "loop" ELSE "crashed"
    /\ idx' = 1
    /\ generated_files' = <<>>
    /\ UNCHANGED <<disk, self, output, log, schema, warnings>>

OutputName(category_id) == "./output/" \o str(category_id) \o "_schema.json"

Truncated == [truncated |-> TRUE]

\* a plausible slip: the exception of one category leaves the loop
loop_exception_propagates == "crashed"

\* what the except clause of the loop does with a raised exception:
\* it prints it, and the loop goes on with the next row
loop_after_exception == "loop"

\* one turn of the loop of generate_all_schemas, for row idx of the category table
generate_all_step ==
    /\ pc = "loop"
    /\ idx <= Len(self.category_data)
    /\ LET category_id == self.category_data[idx]["Category ID"]
           filename == OutputName(category_id)
       IN  \E res \in generate_schema_for_category(self, category_id) :
              \/ /\ IsExc(res)
                 /\ log' = Append(log, Line("error", category_id, res["msg"]))
                 /\ pc' = loop_after_exception
                 /\ UNCHANGED <<output, generated_files>>
              \/ /\ ~IsExc(res)
                 /\ \E written \in {"ok", "open_raises", "dump_raises"} :
                       /\ output' = CASE written = "ok" -> (filename :> res) @@ output
                                      [] written = "dump_raises" ->
                                             (filename :> Truncated) @@ output
                                      [] OTHER -> output
                       /\ generated_files' =
                              IF written = "ok" THEN Append(generated_files, filename)
                              ELSE generated_files
                       /\ log' = Append(log, IF written = "ok"
                                                 THEN Line("generated", category_id, "")
                                                 ELSE Line("error", category_id, "OSError"))
                       /\ pc' = IF written = "ok" THEN "loop" ELSE loop_after_exception
    /\ idx' = idx + 1
    /\ UNCHANGED <<disk, self, schema, warnings>>

\* the loop is over: generate_all_schemas returns generated_files, main prints them
generate_all_return ==
    /\ pc = "loop"
    /\ idx > Len(self.category_data)
    /\ pc' = "done"
    /\ UNCHANGED <<disk, self, idx, generated_files, output, log, schema, warnings>>

(***************************************************************************)
(* A client of the class (quick_start.run_test_generation is one: it calls *)
(* generate_schema_for_category with the first category and validates the  *)
(* result).  Any exception ends the client.                                *)
(***************************************************************************)
ClientIds == {V("A"), V("B"), V("NOPE"), NaN}

client_load_data ==
    /\ pc = "client"
    /\ LET res == load_data(disk)
       IN  /\ self' = res.self
           /\ pc' = IF res.exc # "" THEN "failed" ELSE "ready"
           /\ log' = Append(log, IF res.exc # ""
                                     THEN Line("load_failed", NaN, res.exc)
                                     ELSE Line("loaded", NaN, ""))
    /\ UNCHANGED <<disk, idx, generated_files, output, schema, warnings>>

client_generate ==
    /\ pc = "ready"
    /\ \E category_id \in ClientIds :
          \E res \in generate_schema_for_category(self, category_id) :
             /\ schema' = res
             /\ pc' = IF IsExc(res) THEN "failed" ELSE "generated"
             /\ log' = Append(log, Line("call", category_id, ""))
    /\ UNCHANGED <<disk, self, idx, generated_files, output, warnings>>

client_validate ==
    /\ pc \in {"client", "generated"}
    /\ schema # None
    /\ warnings' = validate_schema(schema)
    /\ pc' = "validated"
    /\ UNCHANGED <<disk, self, idx, generated_files, output, log, schema>>

(***************************************************************************)
(* The CSV files: rows of cell texts, as exported from the spreadsheet     *)
(***************************************************************************)
MaxCats == 2

MaxCourses == 3

MaxFaqs == 3

MaxGraph == 4

MaxAbout == 2

\* sequences over S of length at most n
SeqUpTo(S, n) == UNION {[1..k -> S] : k \in 0..n}

OrgRow(name, value) == ("Variable Name" :> name) @@ ("Value" :> value)

OrgFile == << OrgRow("base_url", "https://x.org"), OrgRow("organization_name", "Org") >>

CategoryRow(id, total) ==
    ("Category ID" :> id)
    @@ ("category_page_url" :> "/page-" \o id)
    @@ ("category_page_name" :> "Page " \o id)
    @@ ("category_keywords" :> "kw")
    @@ ("breadcrumb_1_name" :> "Home")
    @@ ("breadcrumb_1_url" :> "/")
    @@ ("breadcrumb_2_name" :> "")
    @@ ("catalog_id" :> "catalog-" \o id)
    @@ ("catalog_name" :> "Catalog " \o id)
    @@ ("total_courses" :> total)

CourseRow(id, position, code, name) ==
    ("Category ID" :> id)
    @@ ("course_position" :> position)
    @@ ("course_code" :> code)
    @@ ("course_name" :> name)
    @@ ("course_mode_1" :> "online")
    @@ ("course_mode_2" :> "")
    @@ ("geographic_type" :> "")
    @@ ("geographic_name" :> "")

TopicsRow(id, position, topic1, topic2) ==
    ("Category ID" :> id)
    @@ ("course_position" :> position)
    @@ ("course_topic_1" :> topic1)
    @@ ("course_topic_2" :> topic2)
    @@ [c \in {"course_topic_" \o ToString(i) : i \in 3..8} |-> ""]

AreaRow(id, name) ==
    ("Category ID" :> id)
    @@ ("area_served_name" :> name)
    @@ ("area_served_code" :> "TX")
    @@ ("area_served_description" :> "")

TagsRow(id, tag1, tag2) ==
    ("Category ID" :> id)
    @@ ("category_1" :> tag1)
    @@ ("category_2" :> tag2)
    @@ [c \in {"category_" \o ToString(i) : i \in 3..6} |-> ""]

FaqRow(id, position, question, answer) ==
    ("Category ID" :> id)
    @@ ("faq_position" :> position)
    @@ ("faq_question" :> question)
    @@ ("faq_answer" :> answer)

AboutRow(id, name1, name2, name3) ==
    ("Category ID" :> id)
    @@ ("about_topic_1_name" :> name1)
    @@ ("about_topic_1_description" :> "first")
    @@ ("about_topic_2_name" :> name2)
    @@ ("about_topic_2_description" :> "")
    @@ ("about_topic_3_name" :> name3)
    @@ ("about_topic_3_description" :> "third")

\* row k of a table carries its own name or answer text, so a node names its row
Tag(prefix, k) == prefix \o ToString(k)

DefaultRows ==
    [org_data |-> OrgFile,
     category_data |-> << CategoryRow("A", "2"), CategoryRow("B", "1") >>,
     about_topics_data |-> << AboutRow("A", "t1", "", "t3") >>,
     courses_data |-> << CourseRow("A", "2", "C-2", "n1"), CourseRow("A", "1", "", "n2"),
                         CourseRow("B", "1", "N/A", "n3") >>,
     topics_data |-> << TopicsRow("A", "1", "x", "") >>,
     areas_data |-> << AreaRow("A", "Texas") >>,
     categories_data |-> << TagsRow("A", "safety", "") >>,
     faqs_data |-> << FaqRow("A", "1", "q1", "a1") >>]

AllOk == [t \in TableNames |-> "ok"]

Disk(rows) == [status |-> AllOk, rows |-> rows]

\* data directories in which one file is missing or cannot be parsed
BrokenDisks ==
    {[status |-> [AllOk EXCEPT ![t] = how], rows |-> DefaultRows] :
        t \in TableNames, how \in {"missing", "malformed"}}

InitObject ==
    /\ self = Unloaded
    /\ idx = 0
    /\ generated_files = <<>>
    /\ output = <<>>
    /\ log = <<>>
    /\ warnings = <<>>

(***************************************************************************)
(* Spec: python schema_generator.py, over data directories whose category  *)
(* table varies (ids A, B and blank; total_courses present or blank) and   *)
(* whose course table has a row with a blank position or not               *)
(***************************************************************************)
MainCategoryFiles ==
    SeqUpTo({CategoryRow(id, total) : id \in {"A", "B", ""}, total \in {"2", ""}}, MaxCats)

MainCourseFiles ==
    { <<>>,
      << CourseRow("A", "1", "", "n1") >>,
      << CourseRow("A", "1", "", "n1"), CourseRow("B", "", "", "n2") >> }

Init ==
    /\ InitObject
    /\ pc = "main"
    /\ schema = None
    /\ disk \in {Disk([DefaultRows EXCEPT !.category_data = cats, !.courses_data = courses]) :
                    cats \in MainCategoryFiles, courses \in MainCourseFiles}
                \cup BrokenDisks

Next ==
    \/ main_load_data
    \/ generate_all_enter
    \/ generate_all_step
    \/ generate_all_return

Spec == Init /\ [][Next]_vars

(***************************************************************************)
(* Properties of the batch run                                             *)
(***************************************************************************)
\* the lines the loop of generate_all_schemas printed, one per category row visited
RowLines == SelectSeq(log, LAMBDA l : l.kind \in {"generated", "error"})

Matches(s, category_id) == RowsWhere(s.category_data, "Category ID", category_id) # <<>>

\* C2: generate_schema_for_category with an identifier that matches no row of the
\* category table fails with the not-found ValueError and nothing else: it returns
\* no document, and the batch run, where a blank identifier is such a call, prints
\* that error for the row and writes no file for it.
C2_UnknownCategoryNotFound ==
    /\ \A c \in ClientIds :
          (self.loaded = TableNames /\ ~Matches(self, c))
              => generate_schema_for_category(self, c) = {not_found(c)}
    /\ \A k \in 1..Len(RowLines) :
          ~Matches(self, RowLines[k].id)
              => /\ RowLines[k].kind = "error"
                 /\ RowLines[k].msg = not_found(RowLines[k].id)["msg"]
                 /\ OutputName(RowLines[k].id) \notin DOMAIN output
                 /\ OutputName(RowLines[k].id) \notin {generated_files[j] :
                                                          j \in 1..Len(generated_files)}

\* a batch run visited a row with a blank identifier and went on to the end
C2_Witness ==
    /\ pc = "done"
    /\ \E k \in 1..Len(RowLines) : ~Matches(self, RowLines[k].id)
    /\ \E k \in 1..Len(RowLines) : RowLines[k].kind = "generated"

\* C3: generate_all_schemas visits every row of the category table in table order,
\* whatever failed before: the run never stops inside the loop, every row gets its
\* line, and the returned list holds the file names of exactly the rows whose
\* document was built and written, in table order; a row whose build can only
\* raise has no file name in it.
C3_BatchContinuesPastFailures ==
    /\ pc = "crashed" => RowLines = <<>>
    /\ pc \in {"loop", "done"} =>
          /\ Len(RowLines) = idx - 1
          /\ \A k \in 1..Len(RowLines) :
                RowLines[k].id = self.category_data[k]["Category ID"]
          /\ LET good == SelectSeq(RowLines, LAMBDA l : l.kind = "generated")
             IN  /\ generated_files = [k \in 1..Len(good) |-> OutputName(good[k].id)]
                 /\ \A k \in 1..Len(good) :
                       \E res \in generate_schema_for_category(self, good[k].id) :
                          ~IsExc(res)
    /\ pc = "done" => Len(RowLines) = Len(self.category_data)

\* the run is over, an earlier row failed and a later row was generated
C3_Witness ==
    /\ pc = "done"
    /\ \E j, k \in 1..Len(RowLines) :
          j < k /\ RowLines[j].kind = "error" /\ RowLines[k].kind = "generated"

\* C4: main starts generate_all_schemas only after load_data has read all eight
\* files; in a run whose load failed nothing is generated: no row is visited,
\* no file is written, and main has returned.
C4_LoadFailureAbortsRun ==
    /\ pc \in {"generate_all", "loop", "done", "crashed"} =>
          /\ self.loaded = TableNames
          /\ FirstBad(disk) = 0
    /\ FirstBad(disk) # 0 =>
          /\ pc \in {"main", "returned"}
          /\ RowLines = <<>>
          /\ output = <<>>
          /\ generated_files = <<>>

\* a load that failed half way: some tables are set, main has returned
C4_Witness ==
    /\ pc = "returned"
    /\ self.loaded # {}
    /\ self.loaded # TableNames
    /\ log = << Line("load_failed", NaN, "FileNotFoundError") >>

(***************************************************************************)
(* Specifications of a client run.  Each draws one part of the data        *)
(* directory from a bounded set and keeps the rest at DefaultRows.         *)
(***************************************************************************)
NextClient ==
    \/ client_load_data
    \/ client_generate
    \/ client_validate

InitClient(disks) ==
    /\ InitObject
    /\ pc = "client"
    /\ schema = None
    /\ disk \in disks \cup BrokenDisks

\* tables of at most n rows; row k is made by Row(choice, k) from a choice in S
FilesOf(S, n, Row(_, _)) ==
    {[k \in 1..Len(choices) |-> Row(choices[k], k)] : choices \in SeqUpTo(S, n)}

\* SpecAssemble: the category table and which of the other tables have rows
AssembleCategoryFiles ==
    { << CategoryRow("A", "2"), CategoryRow("B", "1") >>,
      << CategoryRow("B", ""), CategoryRow("A", "0") >>,
      << CategoryRow("A", "1"), CategoryRow("A", "") >>,
      << CategoryRow("", "1") >> }

AssembleCourseFiles ==
    { <<>>,
      DefaultRows.courses_data,
      << CourseRow("A", "1", "", "n1"), CourseRow("A", "", "", "n2") >>,
      << CourseRow("A", "1", "", "n1"), CourseRow("X", "", "", "n2") >> }

InitAssemble ==
    InitClient({Disk([t \in TableNames |->
                        CASE t = "org_data" -> IF "org" \in full THEN OrgFile ELSE <<>>
                          [] t = "category_data" -> cats
                          [] t = "courses_data" -> courses
                          [] OTHER -> IF "scoped" \in full THEN DefaultRows[t] ELSE <<>>]) :
                   cats \in AssembleCategoryFiles,
                   courses \in AssembleCourseFiles,
                   full \in SUBSET {"org", "scoped"}})

SpecAssemble == InitAssemble /\ [][NextClient]_vars

\* SpecCatalog: the course table; rows of categories A and B, rows of no category
\* (X), positions 1, 2 or blank
CatalogCourseRow(choice, k) == CourseRow(choice[1], choice[2], "", Tag("n", k))

InitCatalog ==
    InitClient({Disk([DefaultRows EXCEPT !.courses_data = courses]) :
                   courses \in FilesOf({"A", "B", "X"} \X {"1", "2", ""},
                                       MaxCourses, CatalogCourseRow)})

SpecCatalog == InitCatalog /\ [][NextClient]_vars

\* SpecCourse: the course codes; present, blank, or the text N/A
CodeCourseRow(choice, k) == CourseRow("A", choice[1], choice[2], Tag("n", k))

InitCourse ==
    InitClient({Disk([DefaultRows EXCEPT !.courses_data = courses]) :
                   courses \in FilesOf({"1", "2"} \X {"", "N/A", "C-1"},
                                       MaxCourses, CodeCourseRow)})

SpecCourse == InitCourse /\ [][NextClient]_vars

\* SpecFaq: the FAQ table; positions 1, 2 or blank, question present or blank
FaqFileRow(choice, k) ==
    FaqRow(choice[1], choice[2], IF choice[3] THEN Tag("q", k) ELSE "", Tag("a", k))

InitFaq ==
    InitClient({Disk([DefaultRows EXCEPT !.faqs_data = faqs]) :
                   faqs \in FilesOf({"A", "X"} \X {"1", "2", ""} \X BOOLEAN,
                                    MaxFaqs, FaqFileRow)})

SpecFaq == InitFaq /\ [][NextClient]_vars

\* SpecAbout: the about-topics table; each of the three names present or blank
AboutFileRow(choice, k) ==
    AboutRow(choice[1],
             IF 1 \in choice[2] THEN Tag("t1-", k) ELSE "",
             IF 2 \in choice[2] THEN Tag("t2-", k) ELSE "",
             IF 3 \in choice[2] THEN Tag("t3-", k) ELSE "")

InitAbout ==
    InitClient({Disk([DefaultRows EXCEPT !.about_topics_data = about]) :
                   about \in FilesOf({"A", "B"} \X SUBSET {1, 2, 3},
                                     MaxAbout, AboutFileRow)})

SpecAbout == InitAbout /\ [][NextClient]_vars

\* SpecValidate: the client holds any document: @context or not, @graph or not,
\* nodes of the five types, of another type, or with no @type
GraphNodes ==
    {("@type" :> t) : t \in {"WebSite", "EducationalOrganization", "CollectionPage",
                             "OfferCatalog", "FAQPage"}}
    \cup {<<>>}

AnyDocuments ==
    {context @@ graph :
        context \in {<<>>, ("@context" :> "https://schema.org")},
        graph \in {<<>>} \cup {("@graph" :> g) : g \in SeqUpTo(GraphNodes, MaxGraph)}}

InitValidate ==
    /\ InitObject
    /\ pc = "client"
    /\ \/ schema \in AnyDocuments /\ disk = Disk(DefaultRows)
       \/ schema = None /\ disk \in BrokenDisks

SpecValidate == InitValidate /\ [][NextClient]_vars

(***************************************************************************)
(* Properties of generate_schema_for_category, read off the client's call  *)
(***************************************************************************)
\* the client's last step was generate_schema_for_category(CalledId)
Called == log # <<>> /\ log[Len(log)].kind = "call"

CalledId == log[Len(log)].id

\* ... and it returned the document now in schema
Generated == Called /\ ~IsExc(schema)

FirstCategoryRow(c) == RowsWhere(self.category_data, "Category ID", c)[1]

CourseRowsOf(c) == RowsWhere(self.courses_data, "Category ID", c)

FiveTypes ==
    << "WebSite", "EducationalOrganization", "CollectionPage", "OfferCatalog", "FAQPage" >>

IsFiveNodeDocument(doc) ==
    /\ DOMAIN doc = {"@context", "@graph"}
    /\ doc["@context"] = "https://schema.org"
    /\ Len(doc["@graph"]) = 5
    /\ \A k \in 1..5 : doc["@graph"][k]["@type"] = FiveTypes[k]

\* the values the code converts with int() are present
Convertible(c) ==
    /\ notna(FirstCategoryRow(c)["total_courses"])
    /\ \A k \in 1..Len(CourseRowsOf(c)) : notna(CourseRowsOf(c)[k]["course_position"])

\* C1 (as amended): for a category identifier that has a row in the category table,
\* generate_schema_for_category returns a document with @context https://schema.org
\* and the five nodes WebSite, EducationalOrganization, CollectionPage, OfferCatalog,
\* FAQPage in this order, whatever rows the other tables hold, provided the row's
\* total_courses and the course_position of each of the category's course rows are
\* present; when one of them is blank the call raises ValueError instead.
C1_FiveNodesWhenConvertible ==
    (Called /\ Matches(self, CalledId)) =>
        IF Convertible(CalledId)
            THEN IsFiveNodeDocument(schema)
            ELSE schema = Raise("ValueError", "cannot convert float NaN to integer")

\* C1 as claimed: every identifier with a row gets the five-node document
C1_Original ==
    (Called /\ Matches(self, CalledId)) => IsFiveNodeDocument(schema)

\* a document built for a category with no course, no FAQ, no about-topic row,
\* no area, no tag and no organization variable at all
C1_Witness ==
    /\ Generated
    /\ IsFiveNodeDocument(schema)
    /\ CourseRowsOf(CalledId) = <<>>
    /\ self.faqs_data = <<>>
    /\ self.about_topics_data = <<>>
    /\ self.org_data = <<>>

Items == schema["@graph"][4]["itemListElement"]

Positions == [k \in 1..Len(Items) |-> Items[k]["position"]]

PositionValues == 0..9

SamePositions(rows) ==
    \A v \in PositionValues :
        Cardinality({k \in 1..Len(Items) : Positions[k] = v})
            = Cardinality({k \in 1..Len(rows) : rows[k]["course_position"] = V(v)})

\* C5 (as amended): in every document built, OfferCatalog.itemListElement has one
\* Course node per course row of the category, its position values are exactly the
\* rows' course_position values in ascending order: never decreasing, and strictly
\* increasing when no two rows of the category share a course_position.
C5_PositionsAscending ==
    Generated =>
        LET rows == CourseRowsOf(CalledId)
        IN  /\ Len(Items) = Len(rows)
            /\ SamePositions(rows)
            /\ \A k \in 1..(Len(Items) - 1) : Positions[k] <= Positions[k + 1]
            /\ (\A j, k \in 1..Len(rows) :
                    j # k => rows[j]["course_position"] # rows[k]["course_position"])
                  => \A k \in 1..(Len(Items) - 1) : Positions[k] < Positions[k + 1]

\* C5 as claimed: the positions are strictly increasing
C5_Original ==
    Generated =>
        /\ SamePositions(CourseRowsOf(CalledId))
        /\ \A k \in 1..(Len(Items) - 1) : Positions[k] < Positions[k + 1]

\* a document whose category has its course rows out of order in the table
C5_Witness ==
    /\ Generated
    /\ \E j, k \in 1..Len(CourseRowsOf(CalledId)) :
          /\ j < k
          /\ CourseRowsOf(CalledId)[j]["course_position"][1]
                > CourseRowsOf(CalledId)[k]["course_position"][1]
    /\ Len(Items) >= 2

\* the generator with the course rows of other identifiers taken out of its table
OwnCoursesOnly(c) == [self EXCEPT !.courses_data = CourseRowsOf(c)]

\* C7: OfferCatalog.numberOfItems is the total_courses declared in the category's
\* row, whatever the number of Course nodes; course rows of another category or of
\* no category change nothing: every Course node comes from a row of the category,
\* and the document is one the call gives with those rows removed from the table.
C7_NumberOfItemsDeclared ==
    Generated =>
        /\ schema["@graph"][4]["numberOfItems"]
              = FirstCategoryRow(CalledId)["total_courses"][1]
        /\ \A k \in 1..Len(Items) :
              \E j \in 1..Len(CourseRowsOf(CalledId)) :
                 Items[k]["name"] = CourseRowsOf(CalledId)[j]["course_name"]
        /\ schema \in generate_schema_for_category(OwnCoursesOnly(CalledId), CalledId)

\* the declared total differs from the number of Course nodes, and the course table
\* has a row of another category and a row of no category
C7_Witness ==
    /\ Generated
    /\ schema["@graph"][4]["numberOfItems"] # Len(Items)
    /\ Len(Items) >= 1
    /\ \E k \in 1..Len(self.courses_data) :
          /\ Matches(self, self.courses_data[k]["Category ID"])
          /\ self.courses_data[k]["Category ID"] # CalledId
    /\ \E k \in 1..Len(self.courses_data) :
          ~Matches(self, self.courses_data[k]["Category ID"])

\* C8: a Course node has the key courseCode exactly when its row's course_code is
\* present and is not N/A, and then the value is the row's course_code; otherwise
\* the node has no such key.  A cell holding the text N/A, or nothing, is absent
\* once the file is read.
C8_CourseCodeOmitted ==
    Generated =>
        \A k \in 1..Len(Items) :
            \E j \in 1..Len(self.courses_data) :
                LET row == self.courses_data[j]
                    text == disk.rows.courses_data[j]["course_code"]
                IN  /\ row["course_name"] = Items[k]["name"]
                    /\ ("courseCode" \in DOMAIN Items[k])
                          <=> (row["course_code"] # NaN /\ row["course_code"] # V("N/A"))
                    /\ ("courseCode" \in DOMAIN Items[k]) <=> text \notin {"", "N/A"}
                    /\ ("courseCode" \in DOMAIN Items[k])
                          => Items[k]["courseCode"] = V(text)

\* a catalog with a node of a row whose code is N/A, a node of a row with no code,
\* both without the key, and a node that has the key
C8_Witness ==
    /\ Generated
    /\ \E j \in 1..Len(self.courses_data) :
          /\ disk.rows.courses_data[j]["course_code"] = "N/A"
          /\ \E k \in 1..Len(Items) :
                /\ Items[k]["name"] = self.courses_data[j]["course_name"]
                /\ "courseCode" \notin DOMAIN Items[k]
    /\ \E k \in 1..Len(Items) : "courseCode" \in DOMAIN Items[k]
    /\ \E j \in 1..Len(self.courses_data) : disk.rows.courses_data[j]["course_code"] = ""

FaqRowsOf(c) == RowsWhere(self.faqs_data, "Category ID", c)

\* the FAQ rows of the category that have a question, in source order
AskedRowsOf(c) == SelectSeq(FaqRowsOf(c), LAMBDA row : row["faq_question"] # NaN)

MainEntity == schema["@graph"][5]["mainEntity"]

\* the entry a FAQ row gives: its own question and its own answer
EntryOf(row) ==
    ("@type" :> "Question")
    @@ ("name" :> row["faq_question"])
    @@ ("acceptedAnswer" :> (("@type" :> "Answer") @@ ("text" :> row["faq_answer"])))

\* p lists rows by ascending faq_position, the rows without one last, in source order
AscendingByPosition(rows, p) ==
    \A j, k \in 1..Len(rows) :
        j < k =>
            LET a == rows[p[j]]["faq_position"]
                b == rows[p[k]]["faq_position"]
            IN  /\ a = NaN => (b = NaN /\ p[j] < p[k])
                /\ (a # NaN /\ b # NaN) => a[1] <= b[1]

\* no two of the rows have the same faq_position
DistinctPositions(rows) ==
    \A j, k \in 1..Len(rows) :
        (j # k /\ rows[j]["faq_position"] # NaN)
            => rows[j]["faq_position"] # rows[k]["faq_position"]

\* the generator with the FAQ rows without a question taken out of its table
AskedOnly == [self EXCEPT !.faqs_data = SelectSeq(self.faqs_data,
                                                   LAMBDA row : row["faq_question"] # NaN)]

\* the mainEntity lists the call may give for the table with those rows taken out
ListsOfAskedOnly(c) ==
    {faqpage["mainEntity"] :
        faqpage \in generate_faq_schema(AskedOnly, c,
                                        FirstCategoryRow(c)["category_page_url"])}

About == schema["@graph"][3]["about"]

AboutNameColumn == << "about_topic_1_name", "about_topic_2_name", "about_topic_3_name" >>

AboutDescriptionColumn ==
    << "about_topic_1_description", "about_topic_2_description",
       "about_topic_3_description" >>

AboutRowsOf(c) == RowsWhere(self.about_topics_data, "Category ID", c)

\* C9: CollectionPage.about has one Thing for each of the three slots whose name is
\* present in the first about-topic row of the category, in slot order, with the
\* slot's name and description, and nothing for a slot without a name: no element
\* has an absent name.  A category with no about-topic row has the empty list.
C9_AboutTopicsSkipGaps ==
    Generated =>
        IF AboutRowsOf(CalledId) = <<>> THEN About = <<>>
        ELSE LET row == AboutRowsOf(CalledId)[1]
                 slots == SelectSeq(<< 1, 2, 3 >>,
                                    LAMBDA i : row[AboutNameColumn[i]] # NaN)
             IN  /\ Len(About) = Len(slots)
                 /\ \A k \in 1..Len(slots) :
                       /\ About[k]["@type"] = "Thing"
                       /\ About[k]["name"] = row[AboutNameColumn[slots[k]]]
                       /\ About[k]["name"] # NaN
                       /\ About[k]["description"] = row[AboutDescriptionColumn[slots[k]]]

\* slot 2 has no name, slots 1 and 3 have one: a list of two topics
C9_Witness ==
    /\ Generated
    /\ AboutRowsOf(CalledId) # <<>>
    /\ AboutRowsOf(CalledId)[1]["about_topic_1_name"] # NaN
    /\ AboutRowsOf(CalledId)[1]["about_topic_2_name"] = NaN
    /\ AboutRowsOf(CalledId)[1]["about_topic_3_name"] # NaN
    /\ Len(About) = 2
    /\ About[2]["name"] = AboutRowsOf(CalledId)[1]["about_topic_3_name"]

(***************************************************************************)
(* Properties of validate_schema                                           *)
(***************************************************************************)
HasNodeOfType(doc, t) ==
    /\ "@graph" \in DOMAIN doc
    /\ \E k \in 1..Len(doc["@graph"]) :
          /\ "@type" \in DOMAIN doc["@graph"][k]
          /\ doc["@graph"][k]["@type"] = t

WarningTexts ==
    {"Missing @context", "Missing @graph"}
    \cup {"Missing required schema type: " \o t :
             t \in {"WebSite", "EducationalOrganization", "CollectionPage", "OfferCatalog"}}

\* C10: validate_schema returns a list of warnings for every document, also one
\* with no @context, no @graph or an empty @graph; the list is empty exactly when
\* @context and @graph are there and each of WebSite, EducationalOrganization,
\* CollectionPage, OfferCatalog is the @type of a node; FAQPage is not asked for.
\* A document generate_schema_for_category returned has no warning.
C10_ValidateWarnings ==
    pc = "validated" =>
        /\ \A k \in 1..Len(warnings) : warnings[k] \in WarningTexts
        /\ warnings = <<>>
              <=> /\ "@context" \in DOMAIN schema
                  /\ "@graph" \in DOMAIN schema
                  /\ \A t \in {"WebSite", "EducationalOrganization", "CollectionPage",
                               "OfferCatalog"} : HasNodeOfType(schema, t)
        /\ Called => warnings = <<>>

\* a document without a FAQPage node was validated without a warning
C10_Witness ==
    /\ pc = "validated"
    /\ ~Called
    /\ warnings = <<>>
    /\ ~HasNodeOfType(schema, "FAQPage")

(***************************************************************************)
(* SpecScoped: the six scoped tables hold rows of the categories A and B   *)
(* and rows of X, an identifier with no category row.  Row k of a table    *)
(* carries texts of its own; a course row of X has no position.  Both the  *)
(* batch run and a client run over each such directory.                    *)
(***************************************************************************)
MaxScoped == 2

ScopedCourseRow(id, k) ==
    CourseRow(id, IF id = "X" THEN "" ELSE ToString(k), "", Tag("n", k))

ScopedAreaRow(id, k) == AreaRow(id, Tag("area", k))

ScopedFaqRow(id, k) == FaqRow(id, ToString(k), Tag("q", k), Tag("a", k))

ScopedTopicsRow(id, k) == TopicsRow(id, ToString(k), Tag("topic", k), "")

ScopedTagsRow(id, k) == TagsRow(id, Tag("tag", k), "")

ScopedAboutRow(id, k) == AboutRow(id, Tag("about", k), "", "")

\* one sequence of identifiers for the course, area and FAQ tables, another for the
\* course-topics, tag and about-topics tables
ScopedDisks ==
    {Disk([DefaultRows EXCEPT
              !.courses_data = [k \in 1..Len(ids) |-> ScopedCourseRow(ids[k], k)],
              !.areas_data = [k \in 1..Len(ids) |-> ScopedAreaRow(ids[k], k)],
              !.faqs_data = [k \in 1..Len(ids) |-> ScopedFaqRow(ids[k], k)],
              !.topics_data = [k \in 1..Len(others) |-> ScopedTopicsRow(others[k], k)],
              !.categories_data = [k \in 1..Len(others) |-> ScopedTagsRow(others[k], k)],
              !.about_topics_data =
                  [k \in 1..Len(others) |-> ScopedAboutRow(others[k], k)]]) :
        ids \in SeqUpTo({"A", "B", "X"}, MaxScoped),
        others \in SeqUpTo({"A", "B", "X"}, MaxScoped)}

InitScoped ==
    /\ InitObject
    /\ pc \in {"main", "client"}
    /\ schema = None
    /\ disk \in ScopedDisks \cup BrokenDisks

NextScoped == Next \/ NextClient

SpecScoped == InitScoped /\ [][NextScoped]_vars

\* the rows of a table that carry Category ID c
RowsOf(table, c) == {table[k] : k \in {j \in 1..Len(table) : table[j]["Category ID"] = c}}

ListItems(list) == {list[k] : k \in 1..Len(list)}

\* every Course node, topic, State node, tag, about-topic and FAQ entry of doc is
\* the one of a row that carries Category ID c
FromRowsOf(doc, c) ==
    LET graph == doc["@graph"]
        catalog == graph[4]
    IN  /\ \A item \in ListItems(catalog["itemListElement"]) :
              /\ \E row \in RowsOf(self.courses_data, c) :
                    /\ item["name"] = row["course_name"]
                    /\ V(item["position"]) = row["course_position"]
              /\ \A topic \in ListItems(item["teaches"]) :
                    \E row \in RowsOf(self.topics_data, c) :
                       \E i \in 1..8 : row["course_topic_" \o ToString(i)] = topic
        /\ \A state \in ListItems(catalog["areaServed"]) :
              \E row \in RowsOf(self.areas_data, c) : state["name"] = row["area_served_name"]
        /\ \A tag \in ListItems(catalog["category"]) :
              \E row \in RowsOf(self.categories_data, c) :
                 \E i \in 1..6 : row["category_" \o ToString(i)] = tag
        /\ \A thing \in ListItems(graph[3]["about"]) :
              \E row \in RowsOf(self.about_topics_data, c) :
                 \E i \in 1..3 : row["about_topic_" \o ToString(i) \o "_name"] = thing["name"]
        /\ \A entry \in ListItems(graph[5]["mainEntity"]) :
              \E row \in RowsOf(self.faqs_data, c) :
                 /\ entry["name"] = row["faq_question"]
                 /\ entry["acceptedAnswer"]["text"] = row["faq_answer"]

\* the scoped tables, and the identifiers that have a category row
ScopedTables ==
    << self.courses_data, self.topics_data, self.areas_data, self.categories_data,
       self.faqs_data, self.about_topics_data >>

HasUnmatchedRow ==
    \E k \in 1..Len(ScopedTables) :
       \E j \in 1..Len(ScopedTables[k]) :
          ~Matches(self, ScopedTables[k][j]["Category ID"])

\* C11: the document of category c is built only from scoped rows whose Category
\* ID equals c: every Course node, State node, FAQ entry, tag, about-topic (and
\* topic taught) in it is the one of a row carrying Category ID c, in the client's
\* call and in every file the batch writes; and rows of the scoped tables whose
\* Category ID matches no category row cause no error: the call for a category that
\* has a row returns a document, and the batch reports no error but a failed write.
C11_ScopedRowsOnly ==
    /\ Generated => FromRowsOf(schema, CalledId)
    /\ (Called /\ Matches(self, CalledId)) => ~IsExc(schema)
    /\ \A k \in 1..Len(RowLines) :
          LET c == RowLines[k].id
          IN  /\ RowLines[k].kind = "error" => RowLines[k].msg = "OSError"
              /\ RowLines[k].kind = "generated" => FromRowsOf(output[OutputName(c)], c)

\* a client's document of A with a Course node, a topic, a State node, a tag, an
\* about-topic and a FAQ entry, from tables that also hold rows of B and of X
C11_Witness ==
    /\ Generated
    /\ CalledId = V("A")
    /\ schema["@graph"][4]["itemListElement"] # <<>>
    /\ schema["@graph"][4]["itemListElement"][1]["teaches"] # <<>>
    /\ schema["@graph"][4]["areaServed"] # <<>>
    /\ schema["@graph"][4]["category"] # <<>>
    /\ schema["@graph"][3]["about"] # <<>>
    /\ schema["@graph"][5]["mainEntity"] # <<>>
    /\ HasUnmatchedRow
    /\ RowsOf(self.areas_data, V("X")) # {}
    /\ RowsOf(self.topics_data, V("X")) # {}

(***************************************************************************)
(* SpecTopics: the course-topics table; rows of the categories A and B at  *)
(* positions 1 and 2, several rows for one pair, and topic columns 1, 2    *)
(* and 8 present or blank.  The course table is that of DefaultRows.       *)
(***************************************************************************)
MaxTopics == 2

TopicsFileRow(choice, k) ==
    [TopicsRow(choice[1], choice[2],
               IF 1 \in choice[3] THEN Tag("t1-", k) ELSE "",
               IF 2 \in choice[3] THEN Tag("t2-", k) ELSE "")
        EXCEPT !["course_topic_8"] = IF 8 \in choice[3] THEN Tag("t8-", k) ELSE ""]

InitTopics ==
    InitClient({Disk([DefaultRows EXCEPT !.topics_data = topics]) :
                   topics \in FilesOf({"A", "B"} \X {"1", "2"}
                                          \X {{}, {1}, {2, 8}, {1, 2, 8}},
                                      MaxTopics, TopicsFileRow)})

SpecTopics == InitTopics /\ [][NextClient]_vars

TopicColumns ==
    << "course_topic_1", "course_topic_2", "course_topic_3", "course_topic_4",
       "course_topic_5", "course_topic_6", "course_topic_7", "course_topic_8" >>

\* the present topics of a course-topics row, in column order
TopicsOf(row) ==
    LET present == SelectSeq(TopicColumns, LAMBDA col : row[col] # NaN)
    IN  [k \in 1..Len(present) |-> row[present[k]]]

\* the course-topics rows of the pair (c, position), in source order
TopicsRowsOf(c, position) ==
    SelectSeq(self.topics_data,
              LAMBDA r : r["Category ID"] = c /\ r["course_position"] = V(position))

\* C12: the teaches list of a Course node is taken from the first course-topics
\* row, in source order, whose (Category ID, course_position) is the pair of the
\* course row: its present course_topic_1..course_topic_8 values in column order,
\* absent ones omitted; it is empty when no row has the pair, and later rows of
\* the pair are ignored.
C12_TeachesFromFirstTopicsRow ==
    Generated =>
        \A k \in 1..Len(Items) :
           LET rows == TopicsRowsOf(CalledId, Items[k]["position"])
           IN  Items[k]["teaches"] = IF rows = <<>> THEN <<>> ELSE TopicsOf(rows[1])

\* a document with a Course node whose pair has two course-topics rows of different
\* topics, the first with topic 1 blank and topics 2 and 8 present, and a Course
\* node whose pair has no course-topics row
C12_Witness ==
    /\ Generated
    /\ \E k \in 1..Len(Items) :
          LET rows == TopicsRowsOf(CalledId, Items[k]["position"])
          IN  /\ Len(rows) = 2
              /\ TopicsOf(rows[1]) # TopicsOf(rows[2])
              /\ rows[1]["course_topic_1"] = NaN
              /\ Items[k]["teaches"] = << rows[1]["course_topic_2"], rows[1]["course_topic_8"] >>
              /\ Len(Items[k]["teaches"]) = 2
    /\ \E k \in 1..Len(Items) :
          /\ TopicsRowsOf(CalledId, Items[k]["position"]) = <<>>
          /\ Items[k]["teaches"] = <<>>

(***************************************************************************)
(* SpecRefs: the cells the @id values are made of.  The organization table *)
(* has no base_url row, one, one with a blank value, or two; the page URL  *)
(* and the catalog id of category A are one text, another, or blank.       *)
(***************************************************************************)
RefsOrgFiles ==
    { <<>>,
      OrgFile,
      << OrgRow("base_url", "") >>,
      << OrgRow("base_url", "https://y.org") >> \o OrgFile }

RefsCategoryFiles ==
    {<< [CategoryRow("A", "2") EXCEPT !["category_page_url"] = url,
                                      !["catalog_id"] = catalog_id],
        CategoryRow("B", "1") >> :
        url \in {"/page-A", "/", ""}, catalog_id \in {"catalog-A", "catalog", ""}}

InitRefs ==
    InitClient({Disk([DefaultRows EXCEPT !.org_data = org, !.category_data = cats]) :
                   org \in RefsOrgFiles, cats \in RefsCategoryFiles})

SpecRefs == InitRefs /\ [][NextClient]_vars

\* the node of the document's @graph that has the given @type
NodeOfType(doc, type) ==
    CHOOSE node \in ListItems(doc["@graph"]) : node["@type"] = type

\* C13: in every generated document each by-id reference points to a node of the
\* same @graph: WebSite.publisher, OfferCatalog.provider and every Course.provider
\* carry the @id of the EducationalOrganization node, CollectionPage.isPartOf the
\* @id of the WebSite node, CollectionPage.mainEntity the @id of the OfferCatalog
\* node, and every Course.isPartOf the @id of the CollectionPage node.
C13_ReferencesResolve ==
    Generated =>
        LET website == NodeOfType(schema, "WebSite")
            organization == NodeOfType(schema, "EducationalOrganization")
            page == NodeOfType(schema, "CollectionPage")
            catalog == NodeOfType(schema, "OfferCatalog")
        IN  /\ website["publisher"]["@id"] = organization["@id"]
            /\ catalog["provider"]["@id"] = organization["@id"]
            /\ page["isPartOf"]["@id"] = website["@id"]
            /\ page["mainEntity"]["@id"] = catalog["@id"]
            /\ \A course \in ListItems(catalog["itemListElement"]) :
                  /\ course["provider"]["@id"] = organization["@id"]
                  /\ course["isPartOf"]["@id"] = page["@id"]

\* a document with Course nodes, built with the first of two base_url rows, for a
\* category row with no page URL
C13_Witness ==
    /\ Generated
    /\ Len(Items) = 2
    /\ Len(RowsWhere(self.org_data, "Variable Name", V("base_url"))) = 2
    /\ NodeOfType(schema, "EducationalOrganization")["@id"] = "https://y.org/#organization"
    /\ Items[1]["isPartOf"]["@id"] = "nan#catalog"
    /\ NodeOfType(schema, "CollectionPage")["mainEntity"]["@id"] = "#catalog"

=============================================================================
